---- MODULE Spec2Model ----
(***************************************************************************)
(* Model of locustfile.py: one simulated OptikormUser.  The state is the   *)
(* user's attributes, the default headers of its HTTP session, the         *)
(* requests it has sent and the responses on_start has read.  on_start is  *)
(* split at its HTTP calls (each call is synchronous: request and response *)
(* are one step); the three tasks are one step each.                       *)
(***************************************************************************)
EXTENDS Integers, Sequences, FiniteSets, TLC

VARIABLES
    BASE_PATH,          \* os.getenv('LOCUST_BASE_PATH', '')
    PASSWORD,           \* os.getenv('LOCUST_PASSWORD', 'locustpass')
    CREATE_RESOURCES,   \* os.getenv('CREATE_RESOURCES', '1') == '1'
    pc,                 \* position of the user in its lifecycle
    username,           \* local of on_start
    token, nutrient_id, fish_id, feed_id,   \* attributes of the user
    headers,            \* self.client.headers (default headers of the session)
    sent,               \* requests sent by self.client, in order
    resp,               \* responses read by on_start, by step
    raised,             \* exceptions that left on_start or a task, in order
    tasks               \* number of task executions so far

vars == <<BASE_PATH, PASSWORD, CREATE_RESOURCES, pc, username, token,
          nutrient_id, fish_id, feed_id, headers, sent, resp, raised, tasks>>

config == <<BASE_PATH, PASSWORD, CREATE_RESOURCES>>
attrs  == <<token, nutrient_id, fish_id, feed_id>>

\* Bound on the number of task executions of one user.
MaxTasks == 2

-----------------------------------------------------------------------------
(* Python values that reach the attributes: None, int, str. *)

None    == [t |-> "none", n |-> 0, s |-> ""]
IntV(i) == [t |-> "int",  n |-> i, s |-> ""]
StrV(x) == [t |-> "str",  n |-> 0, s |-> x]

\* bool(v), as used by `if not self.token`, `if self.nutrient_id`, `if self.fish_id`
Truthy(v) == CASE v.t = "none" -> FALSE
               [] v.t = "int"  -> v.n # 0
               [] v.t = "str"  -> v.s # ""

\* decimal strings of the integers the model uses
Digits == (0 :> "0") @@ (1 :> "1") @@ (2 :> "2") @@ (7 :> "7")

\* str(v), as used in the f-strings and in str(self.nutrient_id)
PyStr(v) == CASE v.t = "none" -> "None"
              [] v.t = "int"  -> Digits[v.n]
              [] v.t = "str"  -> v.s

\* int(v): [ok, n]; a string that is not a decimal literal raises ValueError
PyInt(v) == CASE v.t = "int"  -> [ok |-> TRUE, n |-> v.n]
              [] v.t = "str"  ->
                    IF \E i \in DOMAIN Digits : Digits[i] = v.s
                    THEN [ok |-> TRUE, n |-> CHOOSE i \in DOMAIN Digits : Digits[i] = v.s]
                    ELSE [ok |-> FALSE, n |-> 0]
              [] v.t = "none" -> [ok |-> FALSE, n |-> 0]

-----------------------------------------------------------------------------
(* Inputs: environment, random names, responses of the backend. *)

BasePaths  == {""}                         \* the default of LOCUST_BASE_PATH
Passwords  == {"locustpass"}               \* the default of LOCUST_PASSWORD
HexNames   == {"0a1b2c3d", "ffee0011"}     \* uuid.uuid4().hex[:8]
HexShort   == {"9f3e"}                     \* uuid.uuid4().hex[:4]
Statuses   == {200, 201, 204, 400}
TokenVals  == {StrV(""), StrV("tokA")}
IdVals     == {IntV(0), IntV(1), StrV("x")}

NoFields == [k \in {} |-> None]

\* A response body: valid JSON object (a function from field names to values)
\* or a body resp.json() cannot parse.
Bodies(field, vals) ==
    {[parses |-> FALSE, obj |-> NoFields], [parses |-> TRUE, obj |-> NoFields]}
    \cup {[parses |-> TRUE, obj |-> (field :> v)] : v \in vals}

Responses(field, vals) ==
    [status_code : Statuses, body : Bodies(field, vals)]

NoResponse == [status_code |-> -1, body |-> [parses |-> FALSE, obj |-> NoFields]]

\* resp.json().get(field): [ok, v]; ok is FALSE when json() raises
JsonGet(r, field) ==
    IF ~r.body.parses THEN [ok |-> FALSE, v |-> None]
    ELSE IF field \in DOMAIN r.body.obj THEN [ok |-> TRUE, v |-> r.body.obj[field]]
    ELSE [ok |-> TRUE, v |-> None]

\* rand_username(prefix='locust_admin')
rand_username(hex) == "locust_admin_" \o hex

\* f"{BASE_PATH}<path>"
Url(path) == BASE_PATH \o path

Request(method, path, json) ==
    [method |-> method, path |-> Url(path), json |-> json, headers |-> headers]

NoJson == [k \in {} |-> ""]

-----------------------------------------------------------------------------

Init ==
    /\ BASE_PATH \in BasePaths
    /\ PASSWORD \in Passwords
    /\ CREATE_RESOURCES \in BOOLEAN
    /\ pc = "spawned"
    /\ username = ""
    /\ token = None /\ nutrient_id = None /\ fish_id = None /\ feed_id = None
    /\ headers = [k \in {} |-> ""]
    /\ sent = <<>>
    /\ resp = [s \in {"register", "login", "nutrient", "fish", "feed"} |-> NoResponse]
    /\ raised = <<>>
    /\ tasks = 0

-----------------------------------------------------------------------------
(* on_start, lines 38-61: attribute initialisation and registration. *)

\* status_code in (200, 201)
Created(r) == r.status_code \in {200, 201}

\* self.token after the register response (lines 51-59)
RegisterToken(r) ==
    IF Created(r)
    THEN (IF JsonGet(r, "token").ok THEN JsonGet(r, "token").v ELSE None)
    ELSE None

RegisterData(u) == [username |-> u, password |-> PASSWORD, role |-> "admin"]

Register ==
    /\ pc = "spawned"
    /\ \E hex \in HexNames, r \in Responses("token", TokenVals) :
         /\ username' = rand_username(hex)
         /\ sent' = Append(sent, Request("POST", "api/auth/register/",
                                         RegisterData(rand_username(hex))))
         /\ resp' = [resp EXCEPT !["register"] = r]
         /\ token' = RegisterToken(r)
         /\ pc' = IF Truthy(RegisterToken(r)) THEN "auth" ELSE "login"
    /\ nutrient_id' = None /\ fish_id' = None /\ feed_id' = None
    /\ UNCHANGED <<config, headers, raised, tasks>>

(* on_start, lines 61-69: login fallback. *)

\* self.token after the login response (lines 64-69)
LoginToken(r, old) ==
    IF r.status_code = 200
    THEN (IF JsonGet(r, "token").ok THEN JsonGet(r, "token").v ELSE None)
    ELSE old

\* a login that does not reuse the generated username
LoginData_fresh_name(u) == [username |-> rand_username("00000000"), password |-> PASSWORD]

LoginData(u) == [username |-> u, password |-> PASSWORD]

Login ==
    /\ pc = "login"
    /\ \E r \in Responses("token", TokenVals) :
         /\ sent' = Append(sent, Request("POST", "api/auth/login/", LoginData(username)))
         /\ resp' = [resp EXCEPT !["login"] = r]
         /\ token' = LoginToken(r, token)
    /\ pc' = "auth"
    /\ UNCHANGED <<config, username, nutrient_id, fish_id, feed_id, headers, raised, tasks>>

(* on_start, lines 71-81: the Authorization header and the seeder's gate. *)

\* the header is written before the token is tested
AuthHeaders_unconditional(h, tok) ==
    ("Authorization" :> ("Token " \o PyStr(tok))) @@ h

\* the header is never written
AuthHeaders_not_set(h, tok) ==
    [k \in DOMAIN h \ {"Authorization"} |-> h[k]]

\* self.client.headers after lines 71-78
AuthHeaders(h, tok) ==
    IF ~Truthy(tok)
    THEN [k \in DOMAIN h \ {"Authorization"} |-> h[k]]
    ELSE ("Authorization" :> ("Token " \o PyStr(tok))) @@ h

\* the seeder is not gated on CREATE_RESOURCES
AfterAuth_ignores_flag(tok) ==
    IF ~Truthy(tok) THEN "running" ELSE "nutrient"

\* the `return` of line 75 is missing
AfterAuth_no_return(tok) ==
    IF CREATE_RESOURCES THEN "nutrient" ELSE "running"

\* where on_start goes after line 78
AfterAuth(tok) ==
    IF ~Truthy(tok) THEN "running"
    ELSE IF CREATE_RESOURCES THEN "nutrient" ELSE "running"

Authorize ==
    /\ pc = "auth"
    /\ headers' = AuthHeaders(headers, token)
    /\ pc' = AfterAuth(token)
    /\ UNCHANGED <<config, username, attrs, sent, resp, raised, tasks>>

-----------------------------------------------------------------------------
(* on_start, lines 81-99: the resource seeder.  r.json() is not guarded    *)
(* here: when it raises, the exception leaves on_start.                    *)

\* fish and feed are created without testing the nutrient id
HasNutrient_always(nid) == TRUE

\* `if self.nutrient_id:` of lines 88 and 95
HasNutrient(nid) == Truthy(nid)

\* {str(self.nutrient_id): '50.0'}
NutrientMap(nid) == (PyStr(nid) :> "50.0")

CreateNutrient ==
    /\ pc = "nutrient"
    /\ \E r \in Responses("id", IdVals) :
         /\ sent' = Append(sent, Request("POST", "api/nutrients/",
                                         [name |-> "Protein", unit |-> "g/kg"]))
         /\ resp' = [resp EXCEPT !["nutrient"] = r]
         /\ IF Created(r) /\ ~JsonGet(r, "id").ok
            THEN /\ raised' = Append(raised, "on_start")
                 /\ pc' = "died"
                 /\ UNCHANGED nutrient_id
            ELSE /\ nutrient_id' = IF Created(r) THEN JsonGet(r, "id").v ELSE nutrient_id
                 /\ pc' = IF HasNutrient(nutrient_id') THEN "fish" ELSE "running"
                 /\ UNCHANGED raised
    /\ UNCHANGED <<config, username, token, fish_id, feed_id, headers, tasks>>

CreateFish ==
    /\ pc = "fish"
    /\ \E hex \in HexShort, r \in Responses("id", IdVals) :
         /\ sent' = Append(sent, Request("POST", "api/fish/",
                                         [name |-> "Fish_" \o hex,
                                          nutrients |-> NutrientMap(nutrient_id)]))
         /\ resp' = [resp EXCEPT !["fish"] = r]
         /\ IF Created(r) /\ ~JsonGet(r, "id").ok
            THEN /\ raised' = Append(raised, "on_start")
                 /\ pc' = "died"
                 /\ UNCHANGED fish_id
            ELSE /\ fish_id' = IF Created(r) THEN JsonGet(r, "id").v ELSE fish_id
                 /\ pc' = IF HasNutrient(nutrient_id) THEN "feed" ELSE "running"
                 /\ UNCHANGED raised
    /\ UNCHANGED <<config, username, token, nutrient_id, feed_id, headers, tasks>>

CreateFeed ==
    /\ pc = "feed"
    /\ \E hex \in HexShort, r \in Responses("id", IdVals) :
         /\ sent' = Append(sent, Request("POST", "api/feeds/",
                                         [name |-> "Feed_" \o hex,
                                          price |-> "10.0",
                                          nutrients |-> NutrientMap(nutrient_id)]))
         /\ resp' = [resp EXCEPT !["feed"] = r]
         /\ IF Created(r) /\ ~JsonGet(r, "id").ok
            THEN /\ raised' = Append(raised, "on_start")
                 /\ pc' = "died"
                 /\ UNCHANGED feed_id
            ELSE /\ feed_id' = IF Created(r) THEN JsonGet(r, "id").v ELSE feed_id
                 /\ pc' = "running"
                 /\ UNCHANGED raised
    /\ UNCHANGED <<config, username, token, nutrient_id, fish_id, headers, tasks>>

-----------------------------------------------------------------------------
(* The tasks, lines 101-120.  Their responses are never read.  The harness *)
(* logs an exception that leaves a task and goes on to the next task.      *)

list_resources ==
    /\ pc = "running" /\ tasks < MaxTasks
    /\ sent' = sent \o << Request("GET", "api/nutrients/", NoJson),
                          Request("GET", "api/fish/", NoJson),
                          Request("GET", "api/feeds/", NoJson) >>
    /\ tasks' = tasks + 1
    /\ UNCHANGED <<config, pc, username, attrs, headers, resp, raised>>

\* `if self.fish_id:` of line 111
HasFish(fid) == Truthy(fid)

\* the payload of line 112 (weight 100.0) or of line 116
CalculatePayload(fid) ==
    IF HasFish(fid)
    THEN [fish_selections |-> << [fish_id |-> PyInt(fid).n, weight |-> 100] >>]
    ELSE [fish_selections |-> << >>]

\* a calculate that forgets the fish id once it has used it
calculate_clears_fish ==
    /\ pc = "running" /\ tasks < MaxTasks
    /\ sent' = Append(sent, Request("POST", "api/calculate/", CalculatePayload(fish_id)))
    /\ fish_id' = None
    /\ tasks' = tasks + 1
    /\ UNCHANGED <<config, pc, username, token, nutrient_id, feed_id, headers, resp, raised>>

calculate ==
    /\ pc = "running" /\ tasks < MaxTasks
    /\ IF HasFish(fish_id) /\ ~PyInt(fish_id).ok
       THEN /\ raised' = Append(raised, "calculate")
            /\ UNCHANGED sent
       ELSE /\ sent' = Append(sent, Request("POST", "api/calculate/",
                                            CalculatePayload(fish_id)))
            /\ UNCHANGED raised
    /\ tasks' = tasks + 1
    /\ UNCHANGED <<config, pc, username, attrs, headers, resp>>

ping_api_root ==
    /\ pc = "running" /\ tasks < MaxTasks
    /\ sent' = Append(sent, Request("GET", "api/", NoJson))
    /\ tasks' = tasks + 1
    /\ UNCHANGED <<config, pc, username, attrs, headers, resp, raised>>

-----------------------------------------------------------------------------

Next ==
    \/ Register
    \/ Login
    \/ Authorize
    \/ CreateNutrient
    \/ CreateFish
    \/ CreateFeed
    \/ list_resources
    \/ calculate
    \/ ping_api_root

Spec == Init /\ [][Next]_vars

-----------------------------------------------------------------------------
(* Vocabulary of the properties. *)

\* positions in `sent` of the requests with this method and path
Sent(method, path) ==
    {i \in DOMAIN sent : sent[i].method = method /\ sent[i].path = Url(path)}

\* on_start is over: it returned or an exception left it
OnStartOver == pc \in {"running", "died"}

\* on_start is past the authentication (line 71 reached)
PastLogin == pc \notin {"spawned", "login"}

Read(step) == resp[step] # NoResponse

Is2xx(r) == r.status_code \in 200..299

\* a 200/201 response whose body is a JSON object with a non-null field
Yields(r, field) ==
    Created(r) /\ JsonGet(r, field).ok /\ JsonGet(r, field).v # None

\* the requests of list_resources, calculate and ping_api_root
TaskRequests ==
    Sent("GET", "api/nutrients/") \cup Sent("GET", "api/fish/")
    \cup Sent("GET", "api/feeds/") \cup Sent("GET", "api/")
    \cup Sent("POST", "api/calculate/")

\* the requests of the resource seeder
SeedRequests ==
    Sent("POST", "api/nutrients/") \cup Sent("POST", "api/fish/")
    \cup Sent("POST", "api/feeds/")

IdsUnset == nutrient_id = None /\ fish_id = None /\ feed_id = None

-----------------------------------------------------------------------------
\* C1: a login request is never sent more than once, and once on_start is
\* past the authentication after a non-2xx registration response, exactly one
\* login request has been sent, after the registration request, with the
\* username and the password of the registration request and no role.
C1_LoginOnceAfterFailedRegistration ==
    /\ Cardinality(Sent("POST", "api/auth/login/")) <= 1
    /\ (PastLogin /\ ~Is2xx(resp["register"])) =>
          /\ Cardinality(Sent("POST", "api/auth/login/")) = 1
          /\ \A i \in Sent("POST", "api/auth/login/") :
                /\ \E j \in Sent("POST", "api/auth/register/") : j < i
                /\ \A j \in Sent("POST", "api/auth/register/") :
                      sent[i].json = [username |-> sent[j].json.username,
                                      password |-> sent[j].json.password]

C1_Witness ==
    /\ pc = "running"
    /\ resp["register"].status_code = 400
    /\ Sent("POST", "api/auth/login/") = {2}
    /\ sent[2].json.username = username

\* C2: when on_start has returned without a token, the session's headers hold
\* no Authorization header and no request of a task carries one.
C2_NoTokenNoAuthorization ==
    (pc = "running" /\ ~Truthy(token)) =>
        /\ "Authorization" \notin DOMAIN headers
        /\ \A i \in TaskRequests : "Authorization" \notin DOMAIN sent[i].headers

C2_Witness ==
    /\ pc = "running" /\ ~Truthy(token)
    /\ ~resp["login"].body.parses /\ resp["login"].status_code = 200
    /\ Sent("POST", "api/calculate/") # {} /\ Sent("GET", "api/") # {}

\* C3: a POST to api/fish/ or api/feeds/ has been sent only if the nutrient
\* creation response was 200/201 with an id, which is the session's
\* nutrient_id; and when the nutrient creation response is non-2xx or yields
\* no id, neither request is ever sent and the three ids stay unset.
C3_FishFeedNeedNutrient ==
    /\ (Sent("POST", "api/fish/") \cup Sent("POST", "api/feeds/")) # {} =>
          /\ Yields(resp["nutrient"], "id")
          /\ nutrient_id = JsonGet(resp["nutrient"], "id").v
    /\ (Read("nutrient") /\ (~Is2xx(resp["nutrient"]) \/ ~Yields(resp["nutrient"], "id"))) =>
          /\ Sent("POST", "api/fish/") = {} /\ Sent("POST", "api/feeds/") = {}
          /\ IdsUnset

C3_Witness ==
    /\ pc = "running"
    /\ Sent("POST", "api/fish/") # {} /\ Sent("POST", "api/feeds/") # {}
    /\ nutrient_id = IntV(1)

\* C5: with CREATE_RESOURCES false no POST to api/nutrients/, api/fish/ or
\* api/feeds/ is ever sent and the three ids are unset.
C5_FlagOffNoSeeding ==
    ~CREATE_RESOURCES => (SeedRequests = {} /\ IdsUnset)

C5_Witness ==
    /\ ~CREATE_RESOURCES /\ pc = "running" /\ Truthy(token)
    /\ "Authorization" \in DOMAIN headers

\* C8: in a session whose token is set, every request other than the
\* registration and the login carries the header Authorization: Token <token>,
\* and so do the session's default headers from then on.  (A token the code
\* takes as obtained is a non-empty one.)
C8_TokenOnEveryLaterRequest ==
    (PastLogin /\ pc # "auth" /\ Truthy(token)) =>
        /\ "Authorization" \in DOMAIN headers
        /\ headers["Authorization"] = "Token " \o token.s
        /\ \A i \in SeedRequests \cup TaskRequests :
              /\ "Authorization" \in DOMAIN sent[i].headers
              /\ sent[i].headers["Authorization"] = "Token " \o token.s

C8_Witness ==
    /\ pc = "running" /\ token = StrV("tokA")
    /\ Read("login")
    /\ Sent("POST", "api/feeds/") # {}
    /\ Sent("POST", "api/calculate/") # {} /\ Sent("GET", "api/fish/") # {}

\* C9: once on_start has returned, no step changes token, nutrient_id,
\* fish_id, feed_id or the session's headers.
C9_TasksLeaveSessionAlone ==
    [][pc = "running" => UNCHANGED <<token, nutrient_id, fish_id, feed_id, headers>>]_vars

C9_Witness ==
    /\ pc = "running" /\ tasks >= 2
    /\ Truthy(fish_id) /\ Truthy(feed_id)
    /\ Sent("POST", "api/calculate/") # {}

\* C10: a session without a token sends no POST to api/nutrients/, api/fish/
\* or api/feeds/, whatever CREATE_RESOURCES is; its ids stay unset and each
\* of its calculate requests has an empty fish_selections.
C10_NoTokenNoSeeding ==
    (PastLogin /\ pc # "auth" /\ ~Truthy(token)) =>
        /\ pc = "running"
        /\ SeedRequests = {} /\ IdsUnset
        /\ \A i \in Sent("POST", "api/calculate/") :
              sent[i].json = [fish_selections |-> << >>]

C10_Witness ==
    /\ CREATE_RESOURCES /\ pc = "running" /\ ~Truthy(token)
    /\ Cardinality(Sent("POST", "api/calculate/")) >= 2

-----------------------------------------------------------------------------
\* C4: no calculate execution ends without its POST to api/calculate/, and
\* the fish_selections of a calculate request is the single entry (fish id,
\* weight 100.0) if the fish creation response yielded an id, and empty if
\* it did not.
C4_SelectionsIffFishId ==
    /\ \A k \in DOMAIN raised : raised[k] # "calculate"
    /\ \A i \in Sent("POST", "api/calculate/") :
          IF Yields(resp["fish"], "id")
          THEN /\ Len(sent[i].json.fish_selections) = 1
               /\ PyInt(JsonGet(resp["fish"], "id").v).ok
               /\ sent[i].json.fish_selections[1] =
                     [fish_id |-> PyInt(JsonGet(resp["fish"], "id").v).n, weight |-> 100]
          ELSE sent[i].json.fish_selections = << >>

\* C6: no exception ever leaves on_start or a task.
C6_NothingRaised ==
    raised = << >> /\ pc # "died"

\* C7: when the seeder has run with its nutrient id set, then once on_start
\* is over both the fish and the feed creation request have been sent,
\* whatever the other one's response was.
C7_FeedWhateverFish ==
    (OnStartOver /\ Truthy(nutrient_id)) =>
        /\ Sent("POST", "api/fish/") # {}
        /\ Sent("POST", "api/feeds/") # {}

====
